---- MODULE Spec2Model ----
(***************************************************************************)
(* cvec-db command line (src/src/cvec_db/cli.py): the Manifest Builder      *)
(* create_manifest and the four commands build, download-json,              *)
(* extract-parquet and manifest that call it.                               *)
(*                                                                          *)
(* One output directory is modelled.  Its data files are byte strings, the  *)
(* manifest is the JSON document json.dumps produces.  The collaborators    *)
(* (DownloadService, ExtractorService, polars) live in another package:     *)
(* each call either raises or returns, and extract_all leaves any set of    *)
(* data files behind.  A command runs step by step (pc).  The program is a  *)
(* single-threaded one-shot process: the directory is edited by hand, and   *)
(* the clock moves, only between commands.  The faults are those the        *)
(* program's error paths are about: a missing directory, a data file that   *)
(* cannot be read, a collaborator that raises.  write_text writes the whole *)
(* text or, on a missing directory, nothing.                                *)
(***************************************************************************)
EXTENDS Integers, Sequences, FiniteSets, TLC

\* ------------------------------------------------------------------ bounds
\* longest data file the commands are run on, in bytes
MaxLen == 2
\* longest data file the hashing is run on, in bytes
HashMaxLen == 3
\* bytes asked of one f.read(); the program asks for 8192 (cli.py:46),
\* scaled down so that files of HashMaxLen bytes take several reads
ChunkSize == 2
\* last reading of the UTC clock
MaxClock == 1

\* ------------------------------------------------------------ file names
DataNames == {"a.parquet", "cves.parquet"}
ManifestName == "manifest.json"

\* the characters of a file name, as code points
Chars(n) ==
  CASE n = "a.parquet" -> <<97, 46, 112, 97, 114, 113, 117, 101, 116>>
    [] n = "cves.parquet" -> <<99, 118, 101, 115, 46, 112, 97, 114, 113, 117, 101, 116>>
    [] n = "manifest.json" -> <<109, 97, 110, 105, 102, 101, 115, 116, 46, 106, 115, 111, 110>>

\* "*.parquet" (42 is the star)
GlobPattern_all == <<42>>
GlobPattern == <<42, 46, 112, 97, 114, 113, 117, 101, 116>>

\* fnmatch of a name against a pattern of literals and stars
RECURSIVE Fnmatch(_, _)
Fnmatch(name, pat) ==
  IF pat = <<>> THEN name = <<>>
  ELSE IF Head(pat) = 42
    THEN Fnmatch(name, Tail(pat)) \/ (name # <<>> /\ Fnmatch(Tail(name), pat))
    ELSE name # <<>> /\ Head(name) = Head(pat) /\ Fnmatch(Tail(name), Tail(pat))

\* str.__lt__ on two names: code point order, a proper prefix first
RECURSIVE StrLess(_, _)
StrLess(a, b) ==
  IF b = <<>> THEN FALSE
  ELSE IF a = <<>> THEN TRUE
  ELSE IF Head(a) # Head(b) THEN Head(a) < Head(b)
  ELSE StrLess(Tail(a), Tail(b))

PathLess(m, n) == StrLess(Chars(m), Chars(n))

RECURSIVE Insert(_, _)
Insert(x, s) ==
  IF s = <<>> THEN <<x>>
  ELSE IF PathLess(x, Head(s)) THEN <<x>> \o s
  ELSE <<Head(s)>> \o Insert(x, Tail(s))

RECURSIVE InsertionSort(_)
InsertionSort(s) ==
  IF s = <<>> THEN <<>> ELSE Insert(Head(s), InsertionSort(Tail(s)))

\* sorted(...) of the paths glob yields
Sorted_unsorted(s) == s
Sorted(s) == InsertionSort(s)

\* ------------------------------------------------------------ file bytes
Bytes == {0, 1}

\* every byte string of at most k bytes
RECURSIVE SeqsUpTo(_)
SeqsUpTo(k) ==
  IF k = 0 THEN {<<>>}
  ELSE LET shorter == SeqsUpTo(k - 1)
       IN  shorter \cup {Append(s, b) : s \in {t \in shorter : Len(t) = k - 1}, b \in Bytes}
Contents == SeqsUpTo(HashMaxLen)

\* one byte string of each length: 1, 10, 101, ...
RECURSIVE Pattern(_)
Pattern(k) == IF k = 0 THEN <<>> ELSE Append(Pattern(k - 1), k % 2)
SampleContents == {Pattern(k) : k \in 0..MaxLen}

Absent == [present |-> FALSE, bytes |-> <<>>]
File(c) == [present |-> TRUE, bytes |-> c]
\* the data files the commands are run on, and those the hashing is run on
FileStates == {Absent} \cup {File(c) : c \in SampleContents}
AnyFileStates == {Absent} \cup {File(c) : c \in Contents}

\* ------------------------------------------------------------- hashlib
\* hashlib.sha256 is modelled by an accumulator of the same shape: an
\* initial state, update() absorbing the bytes of a chunk in order, and
\* hexdigest() finishing with the absorbed length and printing lowercase
\* hexadecimal.  The word is 16 bits wide instead of 256.
ShaNew == [h |-> 1, n |-> 0]

RECURSIVE ShaUpdate(_, _)
ShaUpdate(st, chunk) ==
  IF chunk = <<>> THEN st
  ELSE ShaUpdate([h |-> (st.h * 3 + Head(chunk) + 1) % (2 ^ 16), n |-> st.n + 1],
                 Tail(chunk))

HexDigits == <<"0", "1", "2", "3", "4", "5", "6", "7",
               "8", "9", "a", "b", "c", "d", "e", "f">>

Hex4(w) == << HexDigits[((w \div 4096) % 16) + 1], HexDigits[((w \div 256) % 16) + 1],
              HexDigits[((w \div 16) % 16) + 1], HexDigits[(w % 16) + 1] >>

ShaHexDigest(st) == Hex4((st.h * 7 + st.n) % (2 ^ 16))

\* f.read(ChunkSize) at offset pos: the next bytes, fewer at the end of
\* the file, none after it
Read(bytes, pos) ==
  SubSeq(bytes, pos + 1, IF pos + ChunkSize < Len(bytes) THEN pos + ChunkSize ELSE Len(bytes))

\* for chunk in iter(lambda: f.read(8192), b""): sha256.update(chunk)
ReadLoop_one_read(bytes, pos, st) == ShaUpdate(st, Read(bytes, pos))

RECURSIVE ReadLoop(_, _, _)
ReadLoop(bytes, pos, st) ==
  LET chunk == Read(bytes, pos)
  IN  IF chunk = <<>> THEN st
      ELSE ReadLoop(bytes, pos + Len(chunk), ShaUpdate(st, chunk))

\* pq_file.stat().st_size
StatSize(f) == Len(f.bytes)

\* the entry appended for one data file
FileEntry(n, f) ==
  [name |-> n, size |-> StatSize(f), sha256 |-> ShaHexDigest(ReadLoop(f.bytes, 0, ShaNew))]

\* --------------------------------------------------------------- stats
\* a stats mapping is a set of <<key, value>> pairs with string keys
StatsDomain == {{}} \cup { {<<"cves", k>>} : k \in 0..(MaxLen - 1) }

\* what extract_all returns: a mapping with or without the key "stats"
Results == {[has_stats |-> FALSE, stats |-> {}]}
             \cup {[has_stats |-> TRUE, stats |-> s] : s \in StatsDomain}
NoResult == [has_stats |-> FALSE, stats |-> {}]

\* result.get("stats", {})
ResultGet_default(r) == {}
ResultGet(r) == IF r.has_stats THEN r.stats ELSE {}

\* polars on cves.parquet: an empty file is no parquet file; otherwise
\* len(df) is a function of the bytes
ParquetReadable(f) == Len(f.bytes) > 0
ParquetRows(f) == Len(f.bytes) - 1

\* ------------------------------------------------------------ manifest
MANIFEST_SCHEMA_VERSION == 1

\* datetime.isoformat() of an aware UTC time
IsoFormat(t) == <<t, "+00:00">>

NoDoc == [schema_version |-> 0, generated_at |-> IsoFormat(0), cvec_db_version |-> "",
          stats |-> {}, files |-> <<>>]
NoManifest == [present |-> FALSE, doc |-> NoDoc]

VARIABLES
  dirExists,      \* the output directory exists
  fs,             \* its data files: name -> [present, bytes]
  manifestFile,   \* its manifest.json: [present, doc]
  now,            \* the UTC clock
  cmd,            \* the running command, or "idle"
  pc,             \* its position
  skip,           \* build's --skip-download
  result,         \* what extract_all returned
  stats,          \* the stats mapping handed to create_manifest
  todo,           \* create_manifest: sorted paths still to hash
  parquet_files,  \* create_manifest: entries so far
  log,            \* the steps the command has invoked, in order
  exit,           \* how the command ended: "none", "ok", "exit1", "raise"
  raised,         \* the step whose error ended the command
  err,            \* what the command wrote to stderr
  pre,            \* manifest.json as the command found it
  last,           \* the data files and stats of the last manifest written
  rerun           \* the manifest just written repeats the last one's inputs

vars == <<dirExists, fs, manifestFile, now, cmd, pc, skip, result, stats, todo,
          parquet_files, log, exit, raised, err, pre, last, rerun>>

NoLast == [done |-> FALSE, files |-> [n \in DataNames |-> Absent], stats |-> {}]

Init ==
  /\ dirExists \in BOOLEAN
  /\ fs = [n \in DataNames |-> Absent]
  /\ manifestFile = NoManifest
  /\ now = 0
  /\ cmd = "idle" /\ pc = "idle"
  /\ skip = FALSE
  /\ result = NoResult
  /\ stats = {}
  /\ todo = <<>> /\ parquet_files = <<>>
  /\ log = <<>>
  /\ exit = "none" /\ raised = "" /\ err = <<>>
  /\ pre = NoManifest
  /\ last = NoLast
  /\ rerun = FALSE


\* -------------------------------------------------------- create_manifest
\* what the directory lists; a missing directory lists nothing
Listing ==
  IF dirExists
  THEN {n \in DataNames : fs[n].present}
         \cup (IF manifestFile.present THEN {ManifestName} ELSE {})
  ELSE {}

\* output_dir.glob("*.parquet"): the listed names the pattern matches
GlobResult == {n \in Listing : Fnmatch(Chars(n), GlobPattern)}

\* the orders in which the directory scan may yield a set of names
Orders(S) ==
  {o \in [1..Cardinality(S) -> S] : \A i, j \in 1..Cardinality(S) : i # j => o[i] # o[j]}

\* the loop is over, every matched file has its entry
ScanComplete_any == TRUE
ScanComplete == todo = <<>>

\* datetime.now(timezone.utc)
UtcNow_cached == IF manifestFile.present THEN manifestFile.doc.generated_at[1] ELSE now
UtcNow == now

\* the manifest dict of lines 55-61
Manifest ==
  [schema_version |-> MANIFEST_SCHEMA_VERSION,
   generated_at |-> IsoFormat(UtcNow),
   cvec_db_version |-> "0.1.0",
   stats |-> stats,
   files |-> parquet_files]

\* json.dumps of a mapping with string keys and integer values: every key
\* and value is written as it is
JsonObject(pairs) == {<<p[1], p[2]>> : p \in pairs}

\* json.dumps(manifest, indent=2), as the document the text denotes
JsonDumps(m) ==
  [schema_version |-> m.schema_version,
   generated_at |-> m.generated_at,
   cvec_db_version |-> m.cvec_db_version,
   stats |-> JsonObject(m.stats),
   files |-> m.files]

\* Path.write_text opens the file for writing: it needs the directory and
\* does not create it
WriteTextFails_mkdir == FALSE
WriteTextFails == ~dirExists

\* Path.write_text truncates: the new text is all the file holds
WriteText_append(old, text) ==
  [present |-> TRUE,
   doc |-> IF old.present THEN [text EXCEPT !.files = old.doc.files \o text.files] ELSE text]
WriteText(old, text) == [present |-> TRUE, doc |-> text]

\* an error nothing catches: the traceback, a failing exit
Raise_swallowed(step) ==
  IF step \in {"download_cves", "extract_cves", "extract_all"}
  THEN /\ pc' = "glob"
       /\ exit' = exit
       /\ raised' = step
       /\ err' = err
  ELSE /\ pc' = "exited"
       /\ exit' = "raise"
       /\ raised' = step
       /\ err' = <<"Traceback", step>>
Raise(step) ==
  /\ pc' = "exited"
  /\ exit' = "raise"
  /\ raised' = step
  /\ err' = <<"Traceback", step>>

\* line 42: glob, sorted
Glob ==
  /\ pc = "glob"
  /\ \E order \in Orders(GlobResult) : todo' = Sorted(order)
  /\ parquet_files' = <<>>
  /\ log' = Append(log, "create_manifest")
  /\ pc' = "hash"
  /\ UNCHANGED <<dirExists, fs, manifestFile, now, cmd, skip, result, stats, exit,
                 raised, err, pre, last, rerun>>

\* lines 43-53: one pass of the loop
HashFileOk ==
  /\ pc = "hash"
  /\ todo # <<>>
  /\ parquet_files' = Append(parquet_files, FileEntry(Head(todo), fs[Head(todo)]))
  /\ todo' = Tail(todo)
  /\ UNCHANGED <<dirExists, fs, manifestFile, now, cmd, pc, skip, result, stats, log,
                 exit, raised, err, pre, last, rerun>>

\* lines 45-51: open, read or stat fails on the file
HashFileRaises ==
  /\ pc = "hash"
  /\ todo # <<>>
  /\ Raise("open")
  /\ UNCHANGED <<dirExists, fs, manifestFile, now, cmd, skip, result, stats, todo,
                 parquet_files, log, pre, last, rerun>>

\* lines 55-66
WriteManifest ==
  /\ pc = "hash"
  /\ ScanComplete
  /\ ~WriteTextFails
  /\ manifestFile' = WriteText(manifestFile, JsonDumps(Manifest))
  /\ last' = [done |-> TRUE, files |-> fs, stats |-> stats]
  /\ rerun' = (last.done /\ manifestFile.present /\ last.files = fs
                 /\ last.stats = stats)
  /\ pc' = "exited"
  /\ exit' = "ok"
  /\ UNCHANGED <<dirExists, fs, now, cmd, skip, result, stats, todo, parquet_files, log,
                 raised, err, pre>>

\* line 64 on a missing directory
WriteManifestRaises ==
  /\ pc = "hash"
  /\ ScanComplete
  /\ WriteTextFails
  /\ Raise("write_text")
  /\ UNCHANGED <<dirExists, fs, manifestFile, now, cmd, skip, result, stats, todo,
                 parquet_files, log, pre, last, rerun>>

\* create_manifest(output_dir, stats) called as a function
CallCreateManifest ==
  /\ cmd = "idle"
  /\ \E s \in StatsDomain : stats' = s
  /\ cmd' = "create_manifest"
  /\ pc' = "glob"
  /\ pre' = manifestFile
  /\ UNCHANGED <<dirExists, fs, manifestFile, now, skip, result, todo, parquet_files,
                 log, exit, raised, err, last, rerun>>

\* ------------------------------------------------------------- commands
\* build, lines 95-102: the step after mkdir
AfterMkdir_download(s) == "download_cves"
AfterMkdir(s) == IF s THEN "extract_all" ELSE "download_cves"

\* build, lines 88-93
StartBuild ==
  /\ cmd = "idle"
  /\ \E s \in BOOLEAN : skip' = s /\ pc' = AfterMkdir(s)
  /\ cmd' = "build"
  /\ dirExists' = TRUE
  /\ log' = <<"mkdir">>
  /\ pre' = manifestFile
  /\ UNCHANGED <<fs, manifestFile, now, result, stats, todo, parquet_files, exit,
                 raised, err, last, rerun>>

\* extract_parquet, lines 151-156
StartExtractParquet ==
  /\ cmd = "idle"
  /\ cmd' = "extract_parquet"
  /\ dirExists' = TRUE
  /\ log' = <<"mkdir">>
  /\ pc' = "extract_all"
  /\ pre' = manifestFile
  /\ UNCHANGED <<fs, manifestFile, now, skip, result, stats, todo, parquet_files, exit,
                 raised, err, last, rerun>>

\* download_json, lines 127-131
StartDownloadJson ==
  /\ cmd = "idle"
  /\ cmd' = "download_json"
  /\ pc' = "download_cves"
  /\ pre' = manifestFile
  /\ UNCHANGED <<dirExists, fs, manifestFile, now, skip, result, stats, todo,
                 parquet_files, log, exit, raised, err, last, rerun>>

\* downloader.download_cves() returns
DownloadCvesOk ==
  /\ pc = "download_cves"
  /\ log' = Append(log, "download_cves")
  /\ pc' = "extract_cves"
  /\ UNCHANGED <<dirExists, fs, manifestFile, now, cmd, skip, result, stats, todo,
                 parquet_files, exit, raised, err, pre, last, rerun>>

\* downloader.download_cves() raises
DownloadCvesRaises ==
  /\ pc = "download_cves"
  /\ log' = Append(log, "download_cves")
  /\ Raise("download_cves")
  /\ UNCHANGED <<dirExists, fs, manifestFile, now, cmd, skip, result, stats, todo,
                 parquet_files, pre, last, rerun>>

\* downloader.extract_cves() returns: build goes on, download_json is done
ExtractCvesOk ==
  /\ pc = "extract_cves"
  /\ log' = Append(log, "extract_cves")
  /\ IF cmd = "build"
     THEN pc' = "extract_all" /\ exit' = exit
     ELSE pc' = "exited" /\ exit' = "ok"
  /\ UNCHANGED <<dirExists, fs, manifestFile, now, cmd, skip, result, stats, todo,
                 parquet_files, raised, err, pre, last, rerun>>

\* downloader.extract_cves() raises
ExtractCvesRaises ==
  /\ pc = "extract_cves"
  /\ log' = Append(log, "extract_cves")
  /\ Raise("extract_cves")
  /\ UNCHANGED <<dirExists, fs, manifestFile, now, cmd, skip, result, stats, todo,
                 parquet_files, pre, last, rerun>>

\* extractor.extract_all(output_dir=output_dir) returns; lines 104-110
ExtractAllOk ==
  /\ pc = "extract_all"
  /\ \E p \in [DataNames -> FileStates] : fs' = p
  /\ \E r \in Results : result' = r /\ stats' = ResultGet(r)
  /\ log' = Append(log, "extract_all")
  /\ pc' = "glob"
  /\ UNCHANGED <<dirExists, manifestFile, now, cmd, skip, todo, parquet_files, exit,
                 raised, err, pre, last, rerun>>

\* extractor.extract_all raises, having written what it had written
ExtractAllRaises ==
  /\ pc = "extract_all"
  /\ \E p \in [DataNames -> FileStates] : fs' = p
  /\ log' = Append(log, "extract_all")
  /\ Raise("extract_all")
  /\ UNCHANGED <<dirExists, manifestFile, now, cmd, skip, result, stats, todo,
                 parquet_files, pre, last, rerun>>

\* data_dir or Path("data")
NoneOpt == "None"
OrDefault(opt) == IF opt = NoneOpt THEN "data" ELSE opt

\* data_dir.exists()
PathExists == dirExists

\* manifest, lines 181-185: the directory is missing
ManifestMissingDir ==
  /\ cmd = "idle"
  /\ ~PathExists
  /\ \E opt \in {NoneOpt, "data"} :
       err' = <<"Error: Directory ", OrDefault(opt), " does not exist">>
  /\ cmd' = "manifest"
  /\ pc' = "exited"
  /\ exit' = "exit1"
  /\ pre' = manifestFile
  /\ UNCHANGED <<dirExists, fs, manifestFile, now, skip, result, stats, todo,
                 parquet_files, log, raised, last, rerun>>

\* manifest, lines 187-195: the stats recovered from cves.parquet
ManifestStats ==
  /\ cmd = "idle"
  /\ PathExists
  /\ fs["cves.parquet"].present => ParquetReadable(fs["cves.parquet"])
  /\ stats' = IF fs["cves.parquet"].present
              THEN {<<"cves", ParquetRows(fs["cves.parquet"])>>}
              ELSE {}
  /\ cmd' = "manifest"
  /\ pc' = "glob"
  /\ pre' = manifestFile
  /\ UNCHANGED <<dirExists, fs, manifestFile, now, skip, result, todo, parquet_files,
                 log, exit, raised, err, last, rerun>>

\* manifest, line 192: polars cannot read cves.parquet
ManifestReadRaises ==
  /\ cmd = "idle"
  /\ PathExists
  /\ fs["cves.parquet"].present
  /\ ~ParquetReadable(fs["cves.parquet"])
  /\ cmd' = "manifest"
  /\ Raise("read_parquet")
  /\ pre' = manifestFile
  /\ UNCHANGED <<dirExists, fs, manifestFile, now, skip, result, stats, todo,
                 parquet_files, log, last, rerun>>

\* the process ends and the shell has its exit status
ProcessExit ==
  /\ pc = "exited"
  /\ cmd' = "idle" /\ pc' = "idle"
  /\ skip' = FALSE
  /\ result' = NoResult
  /\ stats' = {}
  /\ todo' = <<>> /\ parquet_files' = <<>>
  /\ log' = <<>>
  /\ exit' = "none" /\ raised' = "" /\ err' = <<>>
  /\ pre' = NoManifest
  /\ rerun' = FALSE
  /\ UNCHANGED <<dirExists, fs, manifestFile, now, last>>

\* ---------------------------------------------------------- environment
\* a data file is written, replaced or removed by hand between commands
ManualEdit ==
  /\ cmd = "idle"
  /\ dirExists
  /\ \E n \in DataNames, f \in FileStates :
       /\ fs[n] # f
       /\ fs' = [fs EXCEPT ![n] = f]
  /\ UNCHANGED <<dirExists, manifestFile, now, cmd, pc, skip, result, stats, todo,
                 parquet_files, log, exit, raised, err, pre, last, rerun>>

\* time passes between commands
Tick ==
  /\ cmd = "idle"
  /\ now < MaxClock
  /\ now' = now + 1
  /\ UNCHANGED <<dirExists, fs, manifestFile, cmd, pc, skip, result, stats, todo,
                 parquet_files, log, exit, raised, err, pre, last, rerun>>

Next ==
  \/ StartBuild
  \/ StartExtractParquet
  \/ StartDownloadJson
  \/ ManifestMissingDir
  \/ ManifestStats
  \/ ManifestReadRaises
  \/ CallCreateManifest
  \/ DownloadCvesOk
  \/ DownloadCvesRaises
  \/ ExtractCvesOk
  \/ ExtractCvesRaises
  \/ ExtractAllOk
  \/ ExtractAllRaises
  \/ Glob
  \/ HashFileOk
  \/ HashFileRaises
  \/ WriteManifest
  \/ WriteManifestRaises
  \/ ProcessExit
  \/ ManualEdit
  \/ Tick

Spec == Init /\ [][Next]_vars

\* create_manifest alone, on a directory of arbitrary data files
InitHash ==
  /\ dirExists = TRUE
  /\ fs \in [DataNames -> AnyFileStates]
  /\ manifestFile = NoManifest
  /\ now = 0
  /\ cmd = "idle" /\ pc = "idle"
  /\ skip = FALSE
  /\ result = NoResult
  /\ stats = {}
  /\ todo = <<>> /\ parquet_files = <<>>
  /\ log = <<>>
  /\ exit = "none" /\ raised = "" /\ err = <<>>
  /\ pre = NoManifest
  /\ last = NoLast
  /\ rerun = FALSE

NextHash ==
  \/ CallCreateManifest
  \/ Glob
  \/ HashFileOk
  \/ HashFileRaises
  \/ WriteManifest
  \/ ProcessExit

SpecHash == InitHash /\ [][NextHash]_vars

\* ---------------------------------------------------------------- claims
ParquetSuffix == <<46, 112, 97, 114, 113, 117, 101, 116>>
EndsWithParquet(n) ==
  LET c == Chars(n)
  IN  /\ Len(c) >= Len(ParquetSuffix)
      /\ SubSeq(c, Len(c) - Len(ParquetSuffix) + 1, Len(c)) = ParquetSuffix

\* the data files of the directory whose names end in .parquet
MatchingFiles == {n \in DataNames : dirExists /\ fs[n].present /\ EndsWithParquet(n)}

\* hashlib.sha256(data).hexdigest() of a whole byte string
Digest(bytes) == ShaHexDigest(ShaUpdate(ShaNew, bytes))

\* create_manifest has returned
Created == pc = "exited" /\ exit = "ok" /\ cmd # "download_json"

Doc == manifestFile.doc
Names(files) == {files[i].name : i \in 1..Len(files)}
Collaborators == {"download_cves", "extract_cves", "extract_all"}

\* the entries are right for the files they name
EntriesRight(files) ==
  \A i \in 1..Len(files) :
    /\ files[i].name \in DataNames
    /\ fs[files[i].name].present
    /\ files[i].size = Len(fs[files[i].name].bytes)
    /\ files[i].sha256 = Digest(fs[files[i].name].bytes)

\* the document lists every matching data file, once, with the right entry
Describes(doc) ==
  /\ Len(doc.files) = Cardinality(MatchingFiles)
  /\ Names(doc.files) = MatchingFiles
  /\ EntriesRight(doc.files)

\* C1: a successful create_manifest on a directory with N matching files
\* writes a files array of exactly N entries, one per matching file, in
\* strictly ascending name order (so without duplicates); none for N = 0.
C1_FilesListedSorted ==
  Created =>
    /\ Len(Doc.files) = Cardinality(MatchingFiles)
    /\ Names(Doc.files) = MatchingFiles
    /\ \A i, j \in 1..Len(Doc.files) :
         i < j => StrLess(Chars(Doc.files[i].name), Chars(Doc.files[j].name))
    /\ (MatchingFiles = {} => Doc.files = <<>>)

C1_Witness == Created /\ Cardinality(MatchingFiles) = 2 /\ Len(Doc.files) = 2

\* C2: every entry of the manifest written has the byte length of the named
\* file as size and the digest of its whole content as sha256: the digest
\* accumulated read by read is the digest of the content, and the size from
\* the file's metadata is the number of bytes hashed.
C2_SizeAndDigest ==
  Created =>
    /\ EntriesRight(Doc.files)
    /\ \A i \in 1..Len(Doc.files) :
         ReadLoop(fs[Doc.files[i].name].bytes, 0, ShaNew).n = Doc.files[i].size

C2_Witness ==
  /\ Created
  /\ \E i \in 1..Len(Doc.files) :
       /\ Doc.files[i].size > ChunkSize
       /\ Doc.files[i].size % ChunkSize # 0
  /\ \E i \in 1..Len(Doc.files) : Doc.files[i].size = 0

\* C3: on a missing directory nothing is written and the directory stays
\* missing: create_manifest ends in an error, and the manifest command ends
\* with exit status 1 and a message holding the path, create_manifest not
\* called.
C3_MissingDirectoryFails ==
  /\ ~dirExists => ~manifestFile.present /\ \A n \in DataNames : ~fs[n].present
  /\ (cmd = "create_manifest" /\ pc = "exited" /\ ~dirExists)
       => exit = "raise" /\ raised = "write_text"
  /\ raised = "write_text" => ~dirExists
  /\ (cmd = "manifest" /\ pc = "exited" /\ ~dirExists)
       => /\ exit = "exit1"
          /\ \E i \in 1..Len(err) : err[i] = "data"
          /\ log = <<>>

C3_Witness ==
  /\ cmd = "create_manifest" /\ pc = "exited" /\ ~dirExists
  /\ exit = "raise" /\ ~manifestFile.present

\* C4: while a command runs, manifest.json is as the command found it, or
\* the command has ended well and manifest.json describes every matching
\* data file; when a file cannot be read the command ends in an error with
\* manifest.json as it was.
C4_AllOrNothing ==
  /\ (cmd # "idle" /\ manifestFile # pre)
       => Created /\ manifestFile.present /\ Describes(Doc)
  /\ raised = "open" => pc = "exited" /\ exit = "raise" /\ manifestFile = pre

C4_Witness ==
  /\ pc = "exited" /\ raised = "open"
  /\ parquet_files # <<>>
  /\ pre.present /\ manifestFile = pre

\* C5 as stated: a second run on the same data files and stats repeats the
\* first manifest but for generated_at, which differs.
C5_Original ==
  (Created /\ rerun) =>
    /\ Doc.files = pre.doc.files
    /\ Doc.schema_version = pre.doc.schema_version
    /\ Doc.cvec_db_version = pre.doc.cvec_db_version
    /\ Doc.stats = pre.doc.stats
    /\ Doc.generated_at # pre.doc.generated_at

\* C5: a second run on the same data files and stats repeats the first
\* manifest but for generated_at, which is the reading of the clock at the
\* second run.
C5_RerunRepeats ==
  (Created /\ rerun) =>
    /\ Doc.files = pre.doc.files
    /\ Doc.schema_version = pre.doc.schema_version
    /\ Doc.cvec_db_version = pre.doc.cvec_db_version
    /\ Doc.stats = pre.doc.stats
    /\ Doc.generated_at = IsoFormat(now)

C5_Witness ==
  /\ Created /\ rerun
  /\ Len(Doc.files) = 2
  /\ Doc.generated_at # pre.doc.generated_at

\* C6: the stats field of the manifest is the stats mapping given to
\* create_manifest, which in build and extract-parquet is the "stats" value
\* extract_all returned, or the empty mapping when it returned none.
C6_StatsVerbatim ==
  Created =>
    /\ Doc.stats = stats
    /\ cmd \in {"build", "extract_parquet"}
         => Doc.stats = (IF result.has_stats THEN result.stats ELSE {})

C6_Witness ==
  /\ Created /\ cmd = "build"
  /\ result.has_stats /\ result.stats # {}
  /\ Doc.stats = result.stats

\* C7: no step of create_manifest changes a data file or the directory, and
\* the one file it writes, manifest.json, then holds the new manifest alone.
CreateManifestStep ==
  pc \in {"glob", "hash"} =>
    /\ fs' = fs
    /\ dirExists' = dirExists
    /\ \/ manifestFile' = manifestFile
       \/ /\ manifestFile'.present
          /\ manifestFile'.doc.files = parquet_files
          /\ manifestFile'.doc.stats = stats
          /\ manifestFile'.doc.generated_at = IsoFormat(now)

C7_OnlyManifestWritten == [][CreateManifestStep]_vars

C7_Witness ==
  /\ Created
  /\ pre.present /\ pre.doc.files # <<>>
  /\ manifestFile # pre
  /\ \E n \in DataNames : fs[n].present

\* the order of the steps of build
BuildOrder(s) ==
  IF s THEN <<"mkdir", "extract_all", "create_manifest">>
  ELSE <<"mkdir", "download_cves", "extract_cves", "extract_all", "create_manifest">>

IsPrefix(a, b) == Len(a) <= Len(b) /\ SubSeq(b, 1, Len(a)) = a
Logged(step) == \E i \in 1..Len(log) : log[i] = step

\* C8: the steps of build come in the order mkdir, download and archive
\* extraction unless skipped, parquet extraction, Manifest Builder; the
\* Manifest Builder is called only once extraction has returned, and a build
\* that ended after extraction returned has called it.
C8_BuildOrder ==
  cmd = "build" =>
    /\ IsPrefix(log, BuildOrder(skip))
    /\ Logged("create_manifest") => raised # "extract_all" /\ pc \in {"hash", "exited"}
    /\ (pc = "exited" /\ Logged("extract_all") /\ raised # "extract_all")
         => Logged("create_manifest")
    /\ (pc = "exited" /\ exit = "ok") => log = BuildOrder(skip)

C8_Witness == cmd = "build" /\ skip /\ pc = "exited" /\ exit = "ok"

\* C9: a collaborator's error ends the command in a failure there and then:
\* the failing call is the last step, the Manifest Builder is not called and
\* manifest.json is as the command found it.
C9_CollaboratorFailure ==
  raised \in Collaborators =>
    /\ cmd \in {"build", "download_json", "extract_parquet"}
    /\ pc = "exited"
    /\ exit = "raise"
    /\ log # <<>> /\ log[Len(log)] = raised
    /\ ~Logged("create_manifest")
    /\ manifestFile = pre

C9_Witness ==
  /\ cmd = "build" /\ pc = "exited" /\ raised = "extract_all"
  /\ pre.present /\ manifestFile = pre

\* C10: the manifest never lists itself: the scan never matches
\* manifest.json, and every name scanned or listed ends in .parquet.
C10_NeverListsItself ==
  /\ ManifestName \notin GlobResult
  /\ \A i \in 1..Len(todo) : todo[i] # ManifestName /\ EndsWithParquet(todo[i])
  /\ manifestFile.present =>
       \A i \in 1..Len(Doc.files) :
         Doc.files[i].name # ManifestName /\ EndsWithParquet(Doc.files[i].name)

C10_Witness ==
  /\ pc = "hash" /\ todo # <<>>
  /\ manifestFile.present /\ Doc.files # <<>>

====
